---- MODULE Spec2Model ----
(***************************************************************************)
(* termpad: src/notebook.js, a single-shot command-line note taker.        *)
(*                                                                         *)
(* The model is the file system under "/" (a function from the absolute    *)
(* paths that exist to their node), the clock, and the                     *)
(* one process of the tool that may be running.  Each run of the program   *)
(* is one action: the module's top-level code (notes directory,            *)
(* configuration) followed by the dispatched handler.  rmdir alone spans   *)
(* several steps: the scan and preview, the answer read from standard      *)
(* input, then one step per unlinkSync / rmdirSync call.  A process that   *)
(* has ended leaves its command line, its output, the children it started  *)
(* and its exception to be looked at (pc = "exited") until the user        *)
(* returns to the shell prompt for the next command.                       *)
(*                                                                         *)
(* A path is the sequence of its segments; path.join, path.dirname and     *)
(* path.relative are computed segment by segment as node's path module     *)
(* computes them.                                                          *)
(***************************************************************************)
EXTENDS Integers, Sequences, FiniteSets, TLC

VARIABLES
    fs,               \* [absolute path that exists -> node]
    now,              \* number of timestamps handed out by new Date()
    argv,             \* <<command, arg1, arg2>> of the process
    pc,               \* "shell" (no process) | "confirm" (rl.question pending)
                      \* | "deleting" | "exited"
    filesToDelete,    \* deleteFolder's list, the part not yet unlinked
    foldersToDelete,  \* deleteFolder's list, the part not yet removed
    answer,           \* the line rl.question handed to its callback
    out,              \* what the process printed, in order
    launched,         \* the child processes it started
    thrown,           \* the uncaught exception that ended it
    pre               \* fs when its handler was entered

vars == <<fs, now, argv, pc, filesToDelete, foldersToDelete, answer,
          out, launched, thrown, pre>>

----------------------------------------------------------------------------
(* Bounds *)

MaxSegs == 2      \* segments in a user-supplied relative path
MaxClock == 1     \* notes created over a behaviour (timestamps handed out)
MaxNodes == 4     \* files and folders the user may have under "/home" beyond
                  \* the notes root and the configuration file

----------------------------------------------------------------------------
(* Names and paths *)

\* the folder names a user types
DirNames == {"a"}

\* note_<timestamp>.txt: one name per timestamp (line 37)
NoteNames == <<"note_t1.txt", "note_t2.txt", "note_t3.txt", "note_t4.txt">>

NoteName(t) == NoteNames[t]

\* string length of a segment ("a".length, ...)
NameLen(s) ==
    CASE s = "a" -> 1
      [] s = "home" -> 4
      [] s = ".notes" -> 6
      [] s = ".notebook_config.json" -> 21
      [] OTHER -> 11

Root == <<>>
HOME == <<"home">>
NOTES_DIR == HOME \o <<".notes">>
CONFIG_FILE == HOME \o <<".notebook_config.json">>

\* process.argv[3] / [4] when the command line has no such word
Undefined == <<"undefined">>

Parent(p) == SubSeq(p, 1, Len(p) - 1)

IsPrefix(p, q) == Len(p) <= Len(q) /\ SubSeq(q, 1, Len(p)) = p

Prefixes(p) == {SubSeq(p, 1, k) : k \in 0..Len(p)}

\* path.join(base, rel): joins and normalises; ".." drops a segment and is
\* absorbed at "/", "." is dropped
RECURSIVE join(_, _)
join(base, rel) ==
    IF rel = <<>> THEN base
    ELSE LET s == Head(rel)
             b == IF s = ".." THEN (IF base = <<>> THEN base ELSE Parent(base))
                  ELSE IF s = "." THEN base
                  ELSE Append(base, s)
         IN  join(b, Tail(rel))

\* path.dirname(rel): the path without its last segment, "." when none is left
dirname(rel) == IF Len(rel) <= 1 THEN <<".">> ELSE Parent(rel)

\* path.relative(from, to), both absolute and normalised
RECURSIVE relative(_, _)
relative(from, to) ==
    IF from # <<>> /\ to # <<>> /\ Head(from) = Head(to)
    THEN relative(Tail(from), Tail(to))
    ELSE [i \in 1..Len(from) |-> ".."] \o to

\* the length of the string an absolute path is written as
RECURSIVE StrLen(_)
StrLen(p) == IF p = <<>> THEN 0 ELSE 1 + NameLen(Head(p)) + StrLen(Tail(p))

----------------------------------------------------------------------------
(* The file system *)

Dir == [isDir |-> TRUE, data |-> <<>>]
File(d) == [isDir |-> FALSE, data |-> d]

existsSync(f, p) == p \in DOMAIN f

isDirectory(f, p) == p \in DOMAIN f /\ f[p].isDir

Put(f, p, n) == [q \in DOMAIN f \cup {p} |-> IF q = p THEN n ELSE f[q]]

Remove(f, p) == [q \in DOMAIN f \ {p} |-> f[q]]

Children(f, p) == {q \in DOMAIN f : q # <<>> /\ Parent(q) = p}

Under(f, p) == {q \in DOMAIN f : IsPrefix(p, q)}

\* fs.mkdirSync(p, {recursive: true})
mkdirSync(f, p) ==
    IF \E q \in Prefixes(p) : q \in DOMAIN f /\ ~f[q].isDir
    THEN [fs |-> f, thrown |-> IF p \in DOMAIN f THEN "EEXIST" ELSE "ENOTDIR"]
    ELSE [fs |-> [q \in DOMAIN f \cup Prefixes(p) |->
                    IF q \in DOMAIN f THEN f[q] ELSE Dir],
          thrown |-> "none"]

\* fs.unlinkSync(p)
unlinkSync(f, p) ==
    IF p \notin DOMAIN f THEN [fs |-> f, thrown |-> "ENOENT"]
    ELSE IF f[p].isDir THEN [fs |-> f, thrown |-> "EISDIR"]
    ELSE [fs |-> Remove(f, p), thrown |-> "none"]

\* fs.rmdirSync(p)
rmdirSync(f, p) ==
    IF p \notin DOMAIN f THEN [fs |-> f, thrown |-> "ENOENT"]
    ELSE IF ~f[p].isDir THEN [fs |-> f, thrown |-> "ENOTDIR"]
    ELSE IF Children(f, p) # {} THEN [fs |-> f, thrown |-> "ENOTEMPTY"]
    ELSE [fs |-> Remove(f, p), thrown |-> "none"]

\* fs.statSync(p).size of a file that exists
size(f, p) == IF f[p].isDir THEN 4096 ELSE Len(f[p].data)

----------------------------------------------------------------------------
(* Configuration (lines 17-27) *)

\* JSON.stringify(config, null, 2)
JSONstringify(c) == <<"{", "editor", c.editor, "pager", c.pager, "}">>

\* JSON.parse accepts the text
JSONvalid(d) ==
    Len(d) = 6 /\ d[1] = "{" /\ d[2] = "editor" /\ d[4] = "pager" /\ d[6] = "}"

\* JSON.parse(text) of a text it accepts
JSONparse(d) == [editor |-> d[3], pager |-> d[5]]

\* x || dflt on an environment variable: undefined and "" are falsy
OrElse(x, dflt) == IF x = "undefined" \/ x = "" THEN dflt ELSE x

defaultConfig(e) ==
    [editor |-> OrElse(e.EDITOR, "vim"), pager |-> OrElse(e.PAGER, "less")]

\* The module's top-level code, lines 12-27: [fs, config, thrown]
Startup(f, e) ==
    LET m  == IF ~existsSync(f, NOTES_DIR) THEN mkdirSync(f, NOTES_DIR)
              ELSE [fs |-> f, thrown |-> "none"]
        f1 == m.fs
    IN  IF m.thrown # "none"
        THEN [fs |-> f1, config |-> defaultConfig(e), thrown |-> m.thrown]
        ELSE IF existsSync(f1, CONFIG_FILE)
        THEN IF f1[CONFIG_FILE].isDir
             THEN [fs |-> f1, config |-> defaultConfig(e), thrown |-> "EISDIR"]
             ELSE IF JSONvalid(f1[CONFIG_FILE].data)
             THEN [fs |-> f1, config |-> JSONparse(f1[CONFIG_FILE].data),
                   thrown |-> "none"]
             ELSE [fs |-> f1, config |-> defaultConfig(e),
                   thrown |-> "SyntaxError"]
        ELSE [fs |-> Put(f1, CONFIG_FILE, File(JSONstringify(defaultConfig(e)))),
              config |-> defaultConfig(e), thrown |-> "none"]

----------------------------------------------------------------------------
(* What a handler leaves behind *)

Msg(text, path) == [text |-> text, path |-> path]

Proc(program, target, status) ==
    [program |-> program, target |-> target, status |-> status]

Result(f, o, l, t) == [fs |-> f, out |-> o, launched |-> l, thrown |-> t]

\* An editor session against path p: the editor may write the file (when its
\* folder exists and p is no folder) or leave the disk alone, and exits with
\* a status.  ed = [saves, data, status]
editorSession(f, p, ed) ==
    IF ed.saves /\ isDirectory(f, Parent(p)) /\ ~isDirectory(f, p)
    THEN Put(f, p, File(ed.data))
    ELSE f

----------------------------------------------------------------------------
(* Handlers (lines 29-191).  Each takes the file system left by the        *)
(* top-level code and returns a Result.  execSync throws when the child    *)
(* exits with a non-zero status.                                           *)

\* createNote(notePath = ''), lines 29-48; t is the timestamp
createNote(f, config, arg, t, ed) ==
    LET notePath   == IF arg = Undefined THEN <<>> ELSE arg
        folderPath == join(NOTES_DIR, dirname(notePath))
        m          == IF notePath # <<>> THEN mkdirSync(f, folderPath)
                      ELSE [fs |-> f, thrown |-> "none"]
        filePath   == Append(folderPath, NoteName(t))
        f2         == editorSession(m.fs, filePath, ed)
        run        == <<Proc(config.editor, filePath, ed.status)>>
    IN  IF m.thrown # "none" THEN Result(m.fs, <<>>, <<>>, m.thrown)
        ELSE IF ed.status # 0 THEN Result(f2, <<>>, run, "ExitStatus")
        ELSE IF ~existsSync(f2, filePath) THEN Result(f2, <<>>, run, "ENOENT")
        ELSE IF size(f2, filePath) > 0
        THEN Result(f2, <<Msg("Note saved as", filePath)>>, run, "none")
        ELSE Result(unlinkSync(f2, filePath).fs,
                    <<Msg("Note was empty, deleting.", <<>>)>>, run, "none")

\* listNotes(dirPath = ''), lines 50-79.  The listing's lines are not kept:
\* only the header, and readdirSync's failure on a path that is a file.
listNotes(f, arg) ==
    LET dirPath  == IF arg = Undefined THEN <<>> ELSE arg
        fullPath == join(NOTES_DIR, dirPath)
    IN  IF ~existsSync(f, fullPath)
        THEN Result(f, <<Msg("Path not found:", dirPath)>>, <<>>, "none")
        ELSE IF ~f[fullPath].isDir
        THEN Result(f, <<Msg("Notes in", dirPath)>>, <<>>, "ENOTDIR")
        ELSE Result(f, <<Msg("Notes in", dirPath)>>, <<>>, "none")

\* viewNote(notePath), lines 81-88; pg is the pager's exit status
viewNote(f, config, notePath, pg) ==
    LET fullPath == join(NOTES_DIR, notePath)
    IN  IF notePath = Undefined THEN Result(f, <<>>, <<>>, "TypeError")
        ELSE IF existsSync(f, fullPath)
        THEN Result(f, <<>>, <<Proc(config.pager, fullPath, pg)>>,
                    IF pg # 0 THEN "ExitStatus" ELSE "none")
        ELSE Result(f, <<Msg("Note not found:", notePath)>>, <<>>, "none")

\* searchNotes whose catch block does not look at error.status
searchNotes_anyError(f, term, arg, st) ==
    LET searchPath     == IF arg = Undefined THEN <<>> ELSE arg
        fullSearchPath == join(NOTES_DIR, searchPath)
        head           == Msg("Searching for", searchPath)
        run            == <<Proc("grep", fullSearchPath, st)>>
    IN  IF term = Undefined \/ term = <<>>
        THEN Result(f, <<Msg("Please provide a search term.", <<>>)>>, <<>>, "none")
        ELSE IF st = 0
        THEN Result(f, <<head, Msg("result", <<>>)>>, run, "none")
        ELSE Result(f, <<head, Msg("An error occurred during the search.", <<>>)>>,
                    run, "none")

\* searchNotes(term, searchPath = ''), lines 90-109; st is grep's exit status
searchNotes(f, term, arg, st) ==
    LET searchPath     == IF arg = Undefined THEN <<>> ELSE arg
        fullSearchPath == join(NOTES_DIR, searchPath)
        head           == Msg("Searching for", searchPath)
        run            == <<Proc("grep", fullSearchPath, st)>>
    IN  IF term = Undefined \/ term = <<>>
        THEN Result(f, <<Msg("Please provide a search term.", <<>>)>>, <<>>, "none")
        ELSE IF st = 0
        THEN Result(f, <<head, Msg("result", <<>>)>>, run, "none")
        ELSE IF st = 1
        THEN Result(f, <<head, Msg("No matches found.", <<>>)>>, run, "none")
        ELSE Result(f, <<head, Msg("An error occurred during the search.", <<>>)>>,
                    run, "none")

\* deleteNote(notePath), lines 111-119
deleteNote(f, notePath) ==
    LET fullPath == join(NOTES_DIR, notePath)
        u        == unlinkSync(f, fullPath)
    IN  IF notePath = Undefined THEN Result(f, <<>>, <<>>, "TypeError")
        ELSE IF existsSync(f, fullPath)
        THEN IF u.thrown # "none" THEN Result(f, <<>>, <<>>, u.thrown)
             ELSE Result(u.fs, <<Msg("Note deleted:", notePath)>>, <<>>, "none")
        ELSE Result(f, <<Msg("Note not found:", notePath)>>, <<>>, "none")

\* editNote without the existsSync test
editNote_unchecked(f, config, notePath, ed) ==
    LET fullPath == join(NOTES_DIR, notePath)
        f2       == editorSession(f, fullPath, ed)
        run      == <<Proc(config.editor, fullPath, ed.status)>>
    IN  IF notePath = Undefined THEN Result(f, <<>>, <<>>, "TypeError")
        ELSE IF ed.status # 0 THEN Result(f2, <<>>, run, "ExitStatus")
        ELSE Result(f2, <<Msg("Note updated:", notePath)>>, run, "none")

\* editNote(notePath), lines 121-129
editNote(f, config, notePath, ed) ==
    LET fullPath == join(NOTES_DIR, notePath)
        f2       == editorSession(f, fullPath, ed)
        run      == <<Proc(config.editor, fullPath, ed.status)>>
    IN  IF notePath = Undefined THEN Result(f, <<>>, <<>>, "TypeError")
        ELSE IF existsSync(f, fullPath)
        THEN IF ed.status # 0 THEN Result(f2, <<>>, run, "ExitStatus")
             ELSE Result(f2, <<Msg("Note updated:", notePath)>>, run, "none")
        ELSE Result(f, <<Msg("Note not found:", notePath)>>, <<>>, "none")

\* fs.mkdirSync(p) without {recursive: true}
mkdirSync_flat(f, p) ==
    IF p \in DOMAIN f THEN [fs |-> f, thrown |-> "EEXIST"]
    ELSE IF ~existsSync(f, Parent(p)) THEN [fs |-> f, thrown |-> "ENOENT"]
    ELSE IF ~f[Parent(p)].isDir THEN [fs |-> f, thrown |-> "ENOTDIR"]
    ELSE [fs |-> Put(f, p, Dir), thrown |-> "none"]

\* createFolder calling mkdirSync without {recursive: true}
createFolder_flat(f, folderPath) ==
    LET fullPath == join(NOTES_DIR, folderPath)
        m        == mkdirSync_flat(f, fullPath)
    IN  IF folderPath = Undefined THEN Result(f, <<>>, <<>>, "TypeError")
        ELSE IF ~existsSync(f, fullPath)
        THEN IF m.thrown # "none" THEN Result(f, <<>>, <<>>, m.thrown)
             ELSE Result(m.fs, <<Msg("Folder created:", folderPath)>>, <<>>, "none")
        ELSE Result(f, <<Msg("Folder already exists:", folderPath)>>, <<>>, "none")

\* createFolder(folderPath), lines 131-139
createFolder(f, folderPath) ==
    LET fullPath == join(NOTES_DIR, folderPath)
        m        == mkdirSync(f, fullPath)
    IN  IF folderPath = Undefined THEN Result(f, <<>>, <<>>, "TypeError")
        ELSE IF ~existsSync(f, fullPath)
        THEN IF m.thrown # "none" THEN Result(f, <<>>, <<>>, m.thrown)
             ELSE Result(m.fs, <<Msg("Folder created:", folderPath)>>, <<>>, "none")
        ELSE Result(f, <<Msg("Folder already exists:", folderPath)>>, <<>>, "none")

\* editConfig(), lines 188-191
editConfig(f, config, ed) ==
    LET f2  == editorSession(f, CONFIG_FILE, ed)
        run == <<Proc(config.editor, CONFIG_FILE, ed.status)>>
    IN  IF ed.status # 0 THEN Result(f2, <<>>, run, "ExitStatus")
        ELSE Result(f2, <<Msg("Configuration updated.", <<>>)>>, run, "none")

\* the switch's default branch, lines 225-235
usage(f) == Result(f, <<Msg("Usage: notebook", <<>>)>>, <<>>, "none")

----------------------------------------------------------------------------
(* deleteFolder (lines 141-186) *)

\* the order in which names can come out of a directory
NameOrder == <<".notebook_config.json", ".notes", "a", "home">> \o NoteNames

Rank(s) == CHOOSE i \in 1..Len(NameOrder) : NameOrder[i] = s

Last(p) == p[Len(p)]

\* fs.readdirSync(dir): the entries of dir as paths, in one of the two orders
\* the model lets the operating system return them in
RECURSIVE SeqOf(_, _)
SeqOf(S, rev) ==
    IF S = {} THEN <<>>
    ELSE LET x == CHOOSE y \in S : \A z \in S :
                      IF rev THEN Rank(Last(z)) <= Rank(Last(y))
                      ELSE Rank(Last(y)) <= Rank(Last(z))
         IN  <<x>> \o SeqOf(S \ {x}, rev)

readdirSync(f, dir, rev) == SeqOf(Children(f, dir), rev)

\* scanDirectory(dir), lines 151-162: acc = [files, folders]
RECURSIVE scanItems(_, _, _, _)
scanItems(f, items, rev, acc) ==
    IF items = <<>> THEN acc
    ELSE LET itemPath == Head(items)
         IN  IF f[itemPath].isDir
             THEN scanItems(f, Tail(items), rev,
                      scanItems(f, readdirSync(f, itemPath, rev), rev,
                                [acc EXCEPT !.folders = Append(@, itemPath)]))
             ELSE scanItems(f, Tail(items), rev,
                            [acc EXCEPT !.files = Append(@, itemPath)])

scanDirectory(f, dir, rev) ==
    scanItems(f, readdirSync(f, dir, rev), rev, [files |-> <<>>, folders |-> <<>>])

\* foldersToDelete.sort((a, b) => b.length - a.length), line 179: a stable
\* sort by descending string length
RECURSIVE insertByLength(_, _)
insertByLength(x, s) ==
    IF s = <<>> THEN <<x>>
    ELSE IF StrLen(Head(s)) >= StrLen(x)
    THEN <<Head(s)>> \o insertByLength(x, Tail(s))
    ELSE <<x>> \o s

\* the list left in scan order
sortByLength_unsorted(s) == s

RECURSIVE sortByLength(_)
sortByLength(s) ==
    IF s = <<>> THEN <<>>
    ELSE insertByLength(s[Len(s)], sortByLength(SubSeq(s, 1, Len(s) - 1)))

\* lines 167-169: the preview
preview(files, folders) ==
    <<Msg("The following items will be deleted:", <<>>)>>
    \o [i \in 1..Len(files) |-> Msg("File:", relative(NOTES_DIR, files[i]))]
    \o [i \in 1..Len(folders) |-> Msg("Folder:", relative(NOTES_DIR, folders[i]))]

\* answer.toLowerCase()
toLowerCase(a) ==
    CASE a = "Y" -> "y"
      [] a = "YES" -> "yes"
      [] a = "N" -> "n"
      [] OTHER -> a

\* any answer that begins with a "y"
confirmed_prefix(a) == toLowerCase(a) \in {"y", "yes"}

\* line 177: the confirmation test
confirmed(a) == toLowerCase(a) = "y"

\* deleteFolder up to rl.question, lines 141-176:
\* a Result with the two lists and whether the question was asked
deleteFolder(f, folderPath, rev) ==
    LET fullPath == join(NOTES_DIR, folderPath)
        scan     == scanDirectory(f, fullPath, rev)
        folders  == Append(scan.folders, fullPath)
        none     == [files |-> <<>>, folders |-> <<>>, asks |-> FALSE]
    IN  IF folderPath = Undefined
        THEN Result(f, <<>>, <<>>, "TypeError") @@ none
        ELSE IF ~existsSync(f, fullPath)
        THEN Result(f, <<Msg("Folder not found:", folderPath)>>, <<>>, "none") @@ none
        ELSE IF ~f[fullPath].isDir
        THEN Result(f, <<>>, <<>>, "ENOTDIR") @@ none
        ELSE Result(f, preview(scan.files, folders), <<>>, "none")
             @@ [files |-> scan.files, folders |-> folders, asks |-> TRUE]

----------------------------------------------------------------------------
(* Inputs *)

Segs == DirNames \cup {NoteName(t) : t \in 1..MaxClock} \cup {".."}

SeqsUpTo(S, n) == UNION {[1..k -> S] : k \in 0..n}

\* the relative paths a user types: at most MaxSegs segments, ".." at most once
RelPaths ==
    {p \in SeqsUpTo(Segs, MaxSegs) :
        Cardinality({i \in DOMAIN p : p[i] = ".."}) <= 1}

Args == RelPaths \cup {Undefined}

Terms == {Undefined, <<>>, <<"TODO">>}

Envs ==
    { [EDITOR |-> "undefined", PAGER |-> "undefined"],
      [EDITOR |-> "",          PAGER |-> "undefined"],
      [EDITOR |-> "nano",      PAGER |-> "more"] }

\* what an editor session may do to a note
Sessions ==
    {[saves |-> FALSE, data |-> <<>>, status |-> st] : st \in {0, 1}}
    \cup {[saves |-> TRUE, data |-> d, status |-> st] :
            d \in {<<>>, <<"text">>}, st \in {0, 1}}

\* what an editor session may do to the configuration file
ConfigSessions ==
    {[saves |-> FALSE, data |-> <<>>, status |-> st] : st \in {0, 1}}
    \cup {[saves |-> TRUE, data |-> d, status |-> st] :
            d \in {<<"text">>, JSONstringify([editor |-> "nano", pager |-> "less"])},
            st \in {0, 1}}

ExitStatuses == {0, 1, 2}

Answers == {"y", "Y", "n", "", "yes"}

NoAnswer == "<none>"

\* what the user has put under "/" besides the tool's own two entries
UserNodes(f) == DOMAIN f \ {Root, HOME, NOTES_DIR, CONFIG_FILE}

----------------------------------------------------------------------------
(* Actions *)

Init ==
    /\ fs = [p \in {Root, HOME} |-> Dir]
    /\ now = 0
    /\ argv = <<"", Undefined, Undefined>>
    /\ pc = "shell"
    /\ filesToDelete = <<>>
    /\ foldersToDelete = <<>>
    /\ answer = NoAnswer
    /\ out = <<>>
    /\ launched = <<>>
    /\ thrown = "none"
    /\ pre = fs

\* a handler's Result, or the top-level code's exception
Handled(st, r) ==
    IF st.thrown # "none" THEN Result(st.fs, <<>>, <<>>, st.thrown) ELSE r

\* one whole run of the program that does not wait on standard input
Run(cmd, a1, a2, st, r) ==
    /\ pc = "shell"
    /\ Cardinality(UserNodes(r.fs)) <= MaxNodes
    /\ argv' = <<cmd, a1, a2>>
    /\ pre' = st.fs
    /\ fs' = r.fs
    /\ out' = r.out
    /\ launched' = r.launched
    /\ thrown' = r.thrown
    /\ answer' = NoAnswer
    /\ pc' = "exited"
    /\ UNCHANGED <<filesToDelete, foldersToDelete>>

New ==
    /\ now < MaxClock
    /\ \E a \in Args, e \in Envs, ed \in Sessions :
         LET st == Startup(fs, e)
         IN  /\ Run("new", a, Undefined, st,
                    Handled(st, createNote(st.fs, st.config, a, now + 1, ed)))
             /\ now' = IF st.thrown = "none" THEN now + 1 ELSE now

List ==
    /\ \E a \in Args, e \in Envs :
         LET st == Startup(fs, e)
         IN  Run("list", a, Undefined, st, Handled(st, listNotes(st.fs, a)))
    /\ UNCHANGED now

View ==
    /\ \E a \in Args, e \in Envs, pg \in {0, 1} :
         LET st == Startup(fs, e)
         IN  Run("view", a, Undefined, st,
                 Handled(st, viewNote(st.fs, st.config, a, pg)))
    /\ UNCHANGED now

Search ==
    /\ \E t \in Terms, a \in Args, e \in Envs, status \in ExitStatuses :
         LET st == Startup(fs, e)
         IN  Run("search", t, a, st,
                 Handled(st, searchNotes(st.fs, t, a, status)))
    /\ UNCHANGED now

Delete ==
    /\ \E a \in Args, e \in Envs :
         LET st == Startup(fs, e)
         IN  Run("delete", a, Undefined, st, Handled(st, deleteNote(st.fs, a)))
    /\ UNCHANGED now

Edit ==
    /\ \E a \in Args, e \in Envs, ed \in Sessions :
         LET st == Startup(fs, e)
         IN  Run("edit", a, Undefined, st,
                 Handled(st, editNote(st.fs, st.config, a, ed)))
    /\ UNCHANGED now

Mkdir ==
    /\ \E a \in Args, e \in Envs :
         LET st == Startup(fs, e)
         IN  Run("mkdir", a, Undefined, st, Handled(st, createFolder(st.fs, a)))
    /\ UNCHANGED now

Config ==
    /\ \E e \in Envs, ed \in ConfigSessions :
         LET st == Startup(fs, e)
         IN  Run("config", Undefined, Undefined, st,
                 Handled(st, editConfig(st.fs, st.config, ed)))
    /\ UNCHANGED now

Usage ==
    /\ \E e \in Envs :
         LET st == Startup(fs, e)
         IN  Run("", Undefined, Undefined, st, Handled(st, usage(st.fs)))
    /\ UNCHANGED now

\* rmdir up to the question: the process then waits on standard input
Rmdir ==
    /\ pc = "shell"
    /\ \E a \in Args, e \in Envs, rev \in BOOLEAN :
         LET st == Startup(fs, e)
             d  == deleteFolder(st.fs, a, rev)
             r  == Handled(st, d)
             asks == st.thrown = "none" /\ d.asks
         IN  /\ argv' = <<"rmdir", a, Undefined>>
             /\ pre' = st.fs
             /\ fs' = r.fs
             /\ out' = r.out
             /\ launched' = r.launched
             /\ thrown' = r.thrown
             /\ answer' = NoAnswer
             /\ pc' = IF asks THEN "confirm" ELSE "exited"
             /\ filesToDelete' = IF asks THEN d.files ELSE <<>>
             /\ foldersToDelete' = IF asks THEN d.folders ELSE <<>>
    /\ UNCHANGED now

\* the callback of rl.question, lines 176-185, up to its first deletion.
\* The sort of line 179 touches nothing but the list and is done here.
Answer ==
    /\ pc = "confirm"
    /\ \E a \in Answers :
         /\ answer' = a
         /\ IF confirmed(a)
            THEN /\ pc' = "deleting"
                 /\ foldersToDelete' = sortByLength(foldersToDelete)
                 /\ UNCHANGED <<filesToDelete, out>>
            ELSE /\ pc' = "exited"
                 /\ out' = Append(out, Msg("Deletion cancelled.", <<>>))
                 /\ filesToDelete' = <<>>
                 /\ foldersToDelete' = <<>>
    /\ UNCHANGED <<fs, now, argv, launched, thrown, pre>>

\* standard input ends before a line is read: the callback never runs
EndOfInput ==
    /\ pc = "confirm"
    /\ pc' = "exited"
    /\ filesToDelete' = <<>>
    /\ foldersToDelete' = <<>>
    /\ UNCHANGED <<fs, now, argv, answer, out, launched, thrown, pre>>

\* line 178, one unlinkSync
Unlink ==
    /\ pc = "deleting"
    /\ filesToDelete # <<>>
    /\ LET u == unlinkSync(fs, Head(filesToDelete))
       IN  /\ fs' = u.fs
           /\ thrown' = u.thrown
           /\ IF u.thrown = "none"
              THEN /\ filesToDelete' = Tail(filesToDelete)
                   /\ UNCHANGED <<pc, foldersToDelete>>
              ELSE /\ pc' = "exited"
                   /\ filesToDelete' = <<>>
                   /\ foldersToDelete' = <<>>
    /\ UNCHANGED <<now, argv, answer, out, launched, pre>>

\* line 179, one rmdirSync
RemoveFolder ==
    /\ pc = "deleting"
    /\ filesToDelete = <<>>
    /\ foldersToDelete # <<>>
    /\ LET u == rmdirSync(fs, Head(foldersToDelete))
       IN  /\ fs' = u.fs
           /\ thrown' = u.thrown
           /\ IF u.thrown = "none"
              THEN /\ foldersToDelete' = Tail(foldersToDelete)
                   /\ UNCHANGED <<pc, filesToDelete>>
              ELSE /\ pc' = "exited"
                   /\ filesToDelete' = <<>>
                   /\ foldersToDelete' = <<>>
    /\ UNCHANGED <<now, argv, answer, out, launched, pre>>

\* lines 180 and 184
Deleted ==
    /\ pc = "deleting"
    /\ filesToDelete = <<>>
    /\ foldersToDelete = <<>>
    /\ pc' = "exited"
    /\ out' = Append(out, Msg("Folder deleted:", argv[2]))
    /\ UNCHANGED <<fs, now, argv, filesToDelete, foldersToDelete, answer,
                   launched, thrown, pre>>

\* the process has ended; the user is back at the prompt
Return ==
    /\ pc = "exited"
    /\ pc' = "shell"
    /\ argv' = <<"", Undefined, Undefined>>
    /\ answer' = NoAnswer
    /\ out' = <<>>
    /\ launched' = <<>>
    /\ thrown' = "none"
    /\ pre' = fs
    /\ UNCHANGED <<fs, now, filesToDelete, foldersToDelete>>

Next ==
    \/ New \/ List \/ View \/ Search \/ Delete \/ Edit \/ Mkdir \/ Config
    \/ Usage \/ Rmdir \/ Answer \/ EndOfInput \/ Unlink \/ RemoveFolder
    \/ Deleted \/ Return

Spec == Init /\ [][Next]_vars

----------------------------------------------------------------------------
(* Properties *)

\* the handler of the process was entered: the top-level code did not throw
\* (JSON.parse is the only source of a SyntaxError)
Dispatched == pc # "shell" /\ thrown # "SyntaxError"

\* the absolute path the handler resolved its path argument to
Target == join(NOTES_DIR, argv[2])

Has(text) == \E i \in DOMAIN out : out[i].text = text

Prints(text, path) == \E i \in DOMAIN out : out[i] = Msg(text, path)

SaidYes == argv[1] = "rmdir" /\ answer \in {"y", "Y"}

FilesUnder(f, p) == {q \in Under(f, p) : ~f[q].isDir}

FoldersUnder(f, p) == {q \in Under(f, p) : f[q].isDir}

\* C1: rmdir answered "y" or "Y": no call fails (no rmdirSync meets a
\* non-empty directory), the next folder to be removed is empty, no folder is
\* removed while a file of the tree is left, a folder is removed only after
\* everything below it, and when the process ends nothing of the tree is
\* left, the target included.
C1_ConfirmedRmdirEmptiesTree ==
    SaidYes =>
      /\ thrown = "none"
      /\ (pc = "deleting" /\ filesToDelete = <<>> /\ foldersToDelete # <<>>)
            => Children(fs, Head(foldersToDelete)) = {}
      /\ (FoldersUnder(pre, Target) \ DOMAIN fs # {})
            => FilesUnder(pre, Target) \cap DOMAIN fs = {}
      /\ \A p \in FoldersUnder(pre, Target) \ DOMAIN fs : Under(fs, p) = {}
      /\ pc = "exited"
            => /\ Under(fs, Target) = {}
               /\ Prints("Folder deleted:", argv[2])

\* a confirmed rmdir has ended on a tree that held a file, a folder inside a
\* folder, and a folder whose path is longer than that of a deeper one
C1_Witness ==
    /\ SaidYes
    /\ pc = "exited"
    /\ FilesUnder(pre, Target) # {}
    /\ \E p, q \in FoldersUnder(pre, Target) :
          /\ Len(p) < Len(q)
          /\ StrLen(p) > StrLen(q)
          /\ Parent(q) # Target
    /\ Target \notin DOMAIN fs

\* every entry of the tree under the target is in the preview that was printed
PreviewPrinted ==
    /\ Has("The following items will be deleted:")
    /\ \A p \in FilesUnder(pre, Target) : Prints("File:", relative(NOTES_DIR, p))
    /\ \A p \in FoldersUnder(pre, Target) : Prints("Folder:", relative(NOTES_DIR, p))

\* C2: rmdir answered with anything but "y" or "Y" leaves the file system as
\* it was and reports "cancelled"; and in every rmdir nothing is deleted
\* before the whole preview is printed and an answer has been read.
C2_DeclinedRmdirDeletesNothing ==
    argv[1] = "rmdir" =>
      /\ (answer \notin {NoAnswer, "y", "Y"})
            => /\ fs = pre
               /\ pc = "exited"
               /\ thrown = "none"
               /\ PreviewPrinted
               /\ out[Len(out)] = Msg("Deletion cancelled.", <<>>)
      /\ pc = "confirm" => fs = pre /\ PreviewPrinted
      /\ fs # pre => answer # NoAnswer /\ PreviewPrinted

\* rmdir on a folder that holds something was answered "yes" and cancelled
C2_Witness ==
    /\ argv[1] = "rmdir"
    /\ answer = "yes"
    /\ pc = "exited"
    /\ Cardinality(Under(pre, Target)) > 2
    /\ FilesUnder(pre, Target) # {}
    /\ fs = pre
    /\ Has("Deletion cancelled.")

\* C3 as claimed: after an editor session that ended normally, either the
\* note is on disk with bytes in it and reported saved, or no file is at the
\* computed path and the note is reported empty and discarded.
C3_NewKeepsOrDiscards ==
    (argv[1] = "new" /\ Dispatched /\ Len(launched) = 1 /\ launched[1].status = 0)
    => LET filePath == launched[1].target
       IN  \/ /\ existsSync(fs, filePath)
              /\ size(fs, filePath) > 0
              /\ DOMAIN fs \ DOMAIN pre \subseteq Prefixes(filePath)
              /\ out = <<Msg("Note saved as", filePath)>>
              /\ thrown = "none"
           \/ /\ ~existsSync(fs, filePath)
              /\ out = <<Msg("Note was empty, deleting.", <<>>)>>
              /\ thrown = "none"

\* C4 as claimed: a new [path] that ends without an exception leaves
\* notes-root/path a folder and has opened the note directly inside it; with
\* no path the note is opened directly in the notes root.
C4_NewNestsUnderPath ==
    (argv[1] = "new" /\ Dispatched /\ Len(launched) = 1 /\ thrown = "none")
    => LET path == IF argv[2] = Undefined THEN <<>> ELSE argv[2]
           folder == join(NOTES_DIR, path)
       IN  /\ isDirectory(fs, folder)
           /\ Parent(launched[1].target) = folder

PathCommands ==
    {"new", "list", "view", "search", "delete", "edit", "mkdir", "rmdir"}

Inside(p) == IsPrefix(NOTES_DIR, p)

\* C5 as claimed: no step of new, list, view, search, delete, edit, mkdir or
\* rmdir that throws nothing creates, changes or deletes anything outside the
\* notes root (the home directory and the configuration file, when the
\* top-level code has to create them, apart).
C5_NothingOutsideNotesRoot ==
    [][ (argv'[1] \in PathCommands /\ thrown' = "none") =>
          \A p \in DOMAIN fs \cup DOMAIN fs' :
             ~Inside(p) =>
                \/ p \in DOMAIN fs /\ p \in DOMAIN fs' /\ fs'[p] = fs[p]
                \/ p \notin DOMAIN fs /\ p \in {HOME, CONFIG_FILE} ]_vars

\* C6 as claimed: an editor or pager that exits with a non-zero status changes
\* nothing: no exception, new reports saved or discarded, edit reports the
\* note updated, config reports the configuration updated.
C6_ExitStatusIgnored ==
    (pc = "exited" /\ Len(launched) = 1 /\ launched[1].program # "grep"
       /\ launched[1].status # 0)
    => /\ thrown = "none"
       /\ argv[1] = "new" => Has("Note saved as") \/ Has("Note was empty, deleting.")
       /\ argv[1] = "edit" => Has("Note updated:")
       /\ argv[1] = "config" => Has("Configuration updated.")

\* C7 as claimed: a run of any command but config that finds no configuration
\* file writes one holding the environment's editor and pager or the
\* fallbacks, and no step of such a run changes or removes a configuration
\* file that exists.
C7_ConfigurationPersists ==
    [][ (pc' # "shell" /\ argv'[1] # "config") =>
          IF existsSync(fs, CONFIG_FILE)
          THEN existsSync(fs', CONFIG_FILE) /\ fs'[CONFIG_FILE] = fs[CONFIG_FILE]
          ELSE pc = "shell" =>
                 /\ existsSync(fs', CONFIG_FILE)
                 /\ \E e \in Envs :
                      fs'[CONFIG_FILE] = File(JSONstringify(defaultConfig(e))) ]_vars

NotFoundText ==
    [list |-> "Path not found:", view |-> "Note not found:",
     delete |-> "Note not found:", edit |-> "Note not found:",
     rmdir |-> "Folder not found:"]

\* C8: list, view, delete, edit and rmdir given a path that does not exist
\* print the one "not found" line, throw nothing, start no child process, ask
\* nothing, leave the file system as it was, and the process ends.
C8_MissingPathReported ==
    (Dispatched /\ argv[1] \in DOMAIN NotFoundText /\ argv[2] # Undefined
       /\ ~existsSync(pre, Target))
    => /\ out = <<Msg(NotFoundText[argv[1]], argv[2])>>
       /\ thrown = "none"
       /\ launched = <<>>
       /\ answer = NoAnswer
       /\ pc = "exited"
       /\ fs = pre

\* edit was given a path that names nothing, beside a tree that holds a note
C8_Witness ==
    /\ Dispatched
    /\ argv[1] = "edit"
    /\ argv[2] # Undefined
    /\ ~existsSync(pre, Target)
    /\ FilesUnder(pre, NOTES_DIR) # {}
    /\ Has("Note not found:")

\* C9: search with no term or an empty one starts no process and prints the
\* prompt; with a term it starts grep once and prints the result for status
\* 0, "no matches" for status 1 and the generic error for any other status; it
\* never throws and leaves the file system as it was.
C9_SearchOutcome ==
    (argv[1] = "search" /\ Dispatched)
    => /\ fs = pre
       /\ thrown = "none"
       /\ pc = "exited"
       /\ IF argv[2] \in {Undefined, <<>>}
          THEN /\ launched = <<>>
               /\ out = <<Msg("Please provide a search term.", <<>>)>>
          ELSE /\ Len(launched) = 1
               /\ launched[1].program = "grep"
               /\ out[Len(out)].text =
                     CASE launched[1].status = 0 -> "result"
                       [] launched[1].status = 1 -> "No matches found."
                       [] OTHER -> "An error occurred during the search."

\* a search with a term ended with grep's status 1 and "no matches"
C9_Witness ==
    /\ argv[1] = "search"
    /\ Dispatched
    /\ argv[2] = <<"TODO">>
    /\ Len(launched) = 1
    /\ launched[1].status = 1
    /\ Has("No matches found.")
    /\ FilesUnder(pre, NOTES_DIR) # {}

\* a component of the path is a file
FileOnPath(f, p) == \E q \in Prefixes(p) : existsSync(f, q) /\ ~f[q].isDir

\* mkdir ended the way the claim says it ends on a path that exists ...
MkdirOnExisting ==
    /\ thrown = "none"
    /\ out = <<Msg("Folder already exists:", argv[2])>>
    /\ fs = pre

\* ... and on a path that does not
MkdirOnAbsent ==
    /\ thrown = "none"
    /\ out = <<Msg("Folder created:", argv[2])>>
    /\ \A q \in Prefixes(Target) : isDirectory(fs, q)
    /\ \A q \in DOMAIN pre : existsSync(fs, q) /\ fs[q] = pre[q]
    /\ DOMAIN fs \ DOMAIN pre \subseteq Prefixes(Target)
    /\ createFolder(fs, argv[2]).fs = fs

\* C10 as claimed: mkdir on a path that exists reports "already exists" and
\* changes nothing; on any path that does not exist it creates the folder
\* and every missing folder above it, after which a second mkdir of the path
\* changes nothing.
C10_MkdirAsClaimed ==
    (argv[1] = "mkdir" /\ Dispatched /\ argv[2] # Undefined)
    => IF existsSync(pre, Target) THEN MkdirOnExisting ELSE MkdirOnAbsent

\* C10 amended: as above, when no component of the absent path is a file;
\* when one is, mkdirSync throws ENOTDIR, nothing is printed and nothing is
\* created.
C10_MkdirIdempotent ==
    (argv[1] = "mkdir" /\ Dispatched /\ argv[2] # Undefined)
    => IF existsSync(pre, Target) THEN MkdirOnExisting
       ELSE IF ~FileOnPath(pre, Target) THEN MkdirOnAbsent
       ELSE thrown = "ENOTDIR" /\ out = <<>> /\ fs = pre

\* mkdir created a folder together with a missing folder above it
C10_Witness ==
    /\ argv[1] = "mkdir"
    /\ Dispatched
    /\ argv[2] # Undefined
    /\ ~existsSync(pre, Parent(Target))
    /\ isDirectory(fs, Target)
    /\ Has("Folder created:")

====
